---- MODULE Spec2Model ----
(***************************************************************************)
(* Model of jbgraph3: the binary heap of src/jbheap.py and the Network and *)
(* RSTree classes of src/jbgraph2.py.  Python lists are sequences read     *)
(* with 0-based indices through At; a Python dict whose iteration order is *)
(* observed is a sequence of <<key, value>> pairs in insertion order.      *)
(***************************************************************************)
EXTENDS Integers, Sequences, FiniteSets, TLC

VARIABLES heap, hop,                       \* Heap._heap, the last Heap call
          i_val, tins, tout,               \* HeapOfTuples.i_val, elements put in and taken out
          ext, net, same, origin, nop, built, \* caller's dict, Network._net, calls
          root, tree, marked, open_list, tpc, \* RSTree.__init__ and its locals
          dequeued                            \* the nodes open_list.pop(0) returned

hvars == <<heap, hop, i_val, tins, tout>>

nvars == <<ext, net, same, origin, nop, built>>

tvars == <<root, tree, marked, open_list, tpc, dequeued>>

vars == <<heap, hop, i_val, tins, tout, ext, net, same, origin, nop, built,
          root, tree, marked, open_list, tpc, dequeued>>

\* ---- bounds ----
MaxVal == 4
MaxLen == 4
MaxTag == 2
MaxTuples == 3
NumNodes == 3
TreeSize == 3
MaxEntries == 2
MaxEdges == 3
MaxArcs == 2
MaxRing == 4

Values == 1..MaxVal

\* The result of a call that returns None is <<>>, a returned value v is <<v>>.
None == <<>>
Some(v) == <<v>>

\* L[i] with Python's 0-based index.
At(L, i) == L[i + 1]

\* an exchange that writes one side only
Swap_overwrite(L, i, j) == [L EXCEPT ![i + 1] = L[j + 1]]

\* L[i], L[j] = L[j], L[i]
Swap(L, i, j) == [L EXCEPT ![i + 1] = L[j + 1], ![j + 1] = L[i + 1]]

is_less_than(el1, el2) == el1 < el2

\* a comparison of the field after the keyed one
HeapOfTuples_is_less_than_nextfield(el1, el2) ==
    At(el1, i_val[1] + 1) < At(el2, i_val[1] + 1)

HeapOfTuples_is_less_than(el1, el2) == At(el1, i_val[1]) < At(el2, i_val[1])

\* self.is_less_than: the method of the object's class; a Heap has no i_val.
self_is_less_than(el1, el2) ==
    IF i_val = None THEN is_less_than(el1, el2)
    ELSE HeapOfTuples_is_less_than(el1, el2)

parent(i) == (i - 1) \div 2

left_child(i) == 2 * i + 1

right_child(i) == 2 * i + 2

\* an upward repair that stops after its first exchange
up_heapify_once(L, i) ==
    IF i > 0 /\ self_is_less_than(At(L, i), At(L, parent(i)))
    THEN Swap(L, i, parent(i))
    ELSE L

RECURSIVE up_heapify(_, _)
up_heapify(L, i) ==
    IF i > 0
    THEN IF self_is_less_than(At(L, i), At(L, parent(i)))
         THEN up_heapify(Swap(L, i, parent(i)), parent(i))
         ELSE L
    ELSE L

\* a downward repair whose loop bound is len(L) - 2
RECURSIVE down_heapify_loop_short(_, _)
down_heapify_loop_short(L, i) ==
    IF i < Len(L) - 2
    THEN IF left_child(i) >= Len(L)
         THEN [L |-> L, i |-> i]
         ELSE IF self_is_less_than(At(L, left_child(i)), At(L, i))
              THEN down_heapify_loop_short(Swap(L, i, left_child(i)), left_child(i))
              ELSE IF right_child(i) < Len(L)
                      /\ self_is_less_than(At(L, right_child(i)), At(L, i))
                   THEN down_heapify_loop_short(Swap(L, i, right_child(i)),
                                                right_child(i))
                   ELSE [L |-> L, i |-> i]
    ELSE [L |-> L, i |-> i]

\* An index past the end raises IndexError, which the handler turns into break.
\* The result is the list and the position i at which the loop stopped.
RECURSIVE down_heapify_loop(_, _)
down_heapify_loop(L, i) ==
    IF i < Len(L) - 1
    THEN IF left_child(i) >= Len(L)
         THEN [L |-> L, i |-> i]
         ELSE IF self_is_less_than(At(L, left_child(i)), At(L, i))
              THEN down_heapify_loop(Swap(L, i, left_child(i)), left_child(i))
              ELSE IF i < Len(L) - 2
                   THEN IF right_child(i) >= Len(L)
                        THEN [L |-> L, i |-> i]
                        ELSE IF self_is_less_than(At(L, right_child(i)), At(L, i))
                             THEN down_heapify_loop(Swap(L, i, right_child(i)),
                                                    right_child(i))
                             ELSE [L |-> L, i |-> i]
                   ELSE [L |-> L, i |-> i]
    ELSE [L |-> L, i |-> i]

down_heapify(L, i) == down_heapify_loop(L, i).L

\* list.pop(): the list without its last element.
ListPop(L) == SubSeq(L, 1, Len(L) - 1)

insert(L, element) == up_heapify(Append(L, element), Len(L))

\* a pop without the branch for the empty list: self._heap[0] raises
pop_unguarded(L) ==
    IF Len(L) = 1
    THEN [heap |-> ListPop(L), ret |-> Some(L[Len(L)])]
    ELSE IF Len(L) = 0
         THEN [heap |-> L, ret |-> Some("IndexError")]
         ELSE [heap |-> down_heapify([ListPop(L) EXCEPT ![1] = L[Len(L)]], 0),
               ret  |-> Some(At(L, 0))]

pop(L) ==
    IF Len(L) = 1
    THEN [heap |-> ListPop(L), ret |-> Some(L[Len(L)])]
    ELSE IF Len(L) = 0
         THEN [heap |-> L, ret |-> None]
         ELSE [heap |-> down_heapify([ListPop(L) EXCEPT ![1] = L[Len(L)]], 0),
               ret  |-> Some(At(L, 0))]

\* ---- Heap: state after Heap() and its operations ----
\* hop is the last call: its name, argument, result, the list before it, and
\* whether every call so far was an insert.
HeapInit ==
    /\ heap = <<>>
    /\ hop = [name |-> "init", arg |-> None, ret |-> None, pre |-> <<>>, only |-> TRUE]
    /\ i_val = None
    /\ tins = <<>>
    /\ tout = <<>>

Insert(x) ==
    /\ i_val = None
    /\ Len(heap) < MaxLen
    /\ heap' = insert(heap, x)
    /\ hop' = [name |-> "insert", arg |-> Some(x), ret |-> None, pre |-> heap,
               only |-> hop.only]
    /\ UNCHANGED <<i_val, tins, tout>>
    /\ UNCHANGED <<nvars, tvars>>

Pop ==
    /\ i_val = None
    /\ heap' = pop(heap).heap
    /\ hop' = [name |-> "pop", arg |-> None, ret |-> pop(heap).ret, pre |-> heap,
               only |-> FALSE]
    /\ UNCHANGED <<i_val, tins, tout>>
    /\ UNCHANGED <<nvars, tvars>>

HeapNext == (\E x \in Values : Insert(x)) \/ Pop

\* ---- HeapOfTuples(0): tuples (key, tag) are put in, then taken out ----
Tuples == Values \X (1..MaxTag)

TupleInit ==
    /\ heap = <<>>
    /\ hop = [name |-> "init", arg |-> None, ret |-> None, pre |-> <<>>, only |-> TRUE]
    /\ i_val = Some(0)
    /\ tins = <<>>
    /\ tout = <<>>

TupleInsert(t) ==
    /\ i_val # None
    /\ tout = <<>>
    /\ Len(tins) < MaxTuples
    /\ heap' = insert(heap, t)
    /\ hop' = [name |-> "insert", arg |-> Some(t), ret |-> None, pre |-> heap,
               only |-> hop.only]
    /\ tins' = Append(tins, t)
    /\ UNCHANGED <<i_val, tout>>
    /\ UNCHANGED <<nvars, tvars>>

TuplePop ==
    /\ i_val # None
    /\ Len(tout) <= Len(tins)
    /\ heap' = pop(heap).heap
    /\ hop' = [name |-> "pop", arg |-> None, ret |-> pop(heap).ret, pre |-> heap,
               only |-> FALSE]
    /\ tout' = Append(tout, pop(heap).ret)
    /\ UNCHANGED <<i_val, tins>>
    /\ UNCHANGED <<nvars, tvars>>

TupleNext == (\E t \in Tuples : TupleInsert(t)) \/ TuplePop



\* ======================= src/jbgraph2.py: Network =======================
Nodes == 0..(NumNodes - 1)

\* An inner dict {neighbor: weight} is a sequence of <<key, value>> pairs in
\* insertion order; the outer dict is a function on its keys (its iteration
\* order is observed only by sums and by the unordered node list).
DKeys(d) == {d[i][1] : i \in 1..Len(d)}

DHas(d, k) == k \in DKeys(d)

DGet(d, k) == d[CHOOSE i \in 1..Len(d) : d[i][1] = k][2]

\* d[k] = v
DSet(d, k, v) ==
    IF DHas(d, k)
    THEN [i \in 1..Len(d) |-> IF d[i][1] = k THEN <<k, v>> ELSE d[i]]
    ELSE Append(d, <<k, v>>)

\* del d[k], for k in d
DDel(d, k) == SelectSeq(d, LAMBDA e : e[1] # k)

RECURSIVE DSum(_)
DSum(d) == IF d = <<>> THEN 0 ELSE d[1][2] + DSum(Tail(d))

EmptyDict == <<>>

\* Python truth value of a returned object: None is false, -1 is true.
Truthy(ret) == ret # None

add_node(n, node) ==
    [net |-> IF node \in DOMAIN n THEN n ELSE (node :> EmptyDict) @@ n,
     ret |-> None]

\* add_link that links in one direction only
add_link_oneway(n, node1, node2) ==
    LET r2 == add_node(add_node(n, node1).net, node2)
    IN [net |-> [r2.net EXCEPT ![node1] = DSet(@, node2, 1)], ret |-> None]

add_link(n, node1, node2) ==
    LET r1 == add_node(n, node1) IN
    IF ~Truthy(r1.ret)
    THEN [net |-> r1.net, ret |-> Some(0 - 1)]
    ELSE LET r2 == add_node(r1.net, node2) IN
         IF ~Truthy(r2.ret)
         THEN [net |-> r2.net, ret |-> Some(0 - 1)]
         ELSE LET s1 == [r2.net EXCEPT ![node1] = DSet(@, node2, 1)]
                  s2 == [s1 EXCEPT ![node2] = DSet(@, node1, 1)]
              IN [net |-> s2, ret |-> None]

\* A missing key raises KeyError; what the first del removed stays removed.
del_link(n, node1, node2) ==
    IF node1 \notin DOMAIN n \/ ~DHas(n[node1], node2)
    THEN [net |-> n, err |-> TRUE]
    ELSE LET s1 == [n EXCEPT ![node1] = DDel(@, node2)] IN
         IF node2 \notin DOMAIN s1 \/ ~DHas(s1[node2], node1)
         THEN [net |-> s1, err |-> TRUE]
         ELSE [net |-> [s1 EXCEPT ![node2] = DDel(@, node1)], err |-> FALSE]

RECURSIVE SumOver(_, _)
SumOver(n, S) ==
    IF S = {} THEN 0
    ELSE LET k == CHOOSE k \in S : TRUE IN DSum(n[k]) + SumOver(n, S \ {k})

\* int(total / 2): the total is never negative, int() rounds it down.
link_count(n) == SumOver(n, DOMAIN n) \div 2

node_count(n) == Cardinality(DOMAIN n)

\* number of inner entries of a dict of dicts
Entries(n) == LET RECURSIVE Cnt(_)
                  Cnt(S) == IF S = {} THEN 0
                            ELSE LET k == CHOOSE k \in S : TRUE
                                 IN Len(n[k]) + Cnt(S \ {k})
              IN Cnt(DOMAIN n)

\* built.links: the distinct pairs linked so far, kept while the Network was
\* made by Network() and every call on it was add_link on two distinct nodes.
NotBuilt == [links |-> {}, only |-> FALSE]

NoCall == [name |-> "none", args |-> <<>>, err |-> FALSE, ret |-> None, pre |-> <<>>]

NetInit ==
    /\ ext = <<>>
    /\ net = <<>>
    /\ same = FALSE
    /\ origin = "none"
    /\ nop = NoCall
    /\ built = [links |-> {}, only |-> TRUE]

\* The caller's code fills or changes its own dict: d[a] = {} and d[a][b] = 1.
\* After Network(fromDict=d) the Network's _net is that same object.
CallerNode(a) ==
    /\ origin # "empty"
    /\ a \notin DOMAIN ext
    /\ ext' = (a :> EmptyDict) @@ ext
    /\ net' = IF same THEN ext' ELSE net
    /\ nop' = [name |-> "caller", args |-> <<a>>, err |-> FALSE, ret |-> None,
               pre |-> net]
    /\ UNCHANGED <<same, origin, built>>
    /\ UNCHANGED <<hvars, tvars>>

CallerEntry(a, b) ==
    /\ origin # "empty"
    /\ a \in DOMAIN ext
    /\ ~DHas(ext[a], b)
    /\ Entries(ext) < MaxEntries
    /\ ext' = [ext EXCEPT ![a] = DSet(@, b, 1)]
    /\ net' = IF same THEN ext' ELSE net
    /\ nop' = [name |-> "caller", args |-> <<a, b>>, err |-> FALSE, ret |-> None,
               pre |-> net]
    /\ UNCHANGED <<same, origin, built>>
    /\ UNCHANGED <<hvars, tvars>>

\* Network()
NewNetwork ==
    /\ origin = "none"
    /\ ext = <<>>
    /\ net' = <<>>
    /\ same' = FALSE
    /\ origin' = "empty"
    /\ UNCHANGED <<ext, nop, built>>
    /\ UNCHANGED <<hvars, tvars>>

\* Network(fromDict=d): self._net = fromDict, no copy
NewNetworkFromDict ==
    /\ origin = "none"
    /\ net' = ext
    /\ same' = TRUE
    /\ origin' = "dict"
    /\ built' = NotBuilt
    /\ UNCHANGED <<ext, nop>>
    /\ UNCHANGED <<hvars, tvars>>

AddNode(a) ==
    /\ origin # "none"
    /\ net' = add_node(net, a).net
    /\ ext' = IF same THEN net' ELSE ext
    /\ nop' = [name |-> "add_node", args |-> <<a>>, err |-> FALSE,
               ret |-> add_node(net, a).ret, pre |-> net]
    /\ built' = NotBuilt
    /\ UNCHANGED <<same, origin>>
    /\ UNCHANGED <<hvars, tvars>>

AddLink(a, b) ==
    /\ origin # "none"
    /\ net' = add_link(net, a, b).net
    /\ ext' = IF same THEN net' ELSE ext
    /\ nop' = [name |-> "add_link", args |-> <<a, b>>, err |-> FALSE,
               ret |-> add_link(net, a, b).ret, pre |-> net]
    /\ built' = IF built.only /\ a # b
                THEN [built EXCEPT !.links = @ \cup {{a, b}}]
                ELSE NotBuilt
    /\ UNCHANGED <<same, origin>>
    /\ UNCHANGED <<hvars, tvars>>

DelLink(a, b) ==
    /\ origin # "none"
    /\ net' = del_link(net, a, b).net
    /\ ext' = IF same THEN net' ELSE ext
    /\ nop' = [name |-> "del_link", args |-> <<a, b>>, err |-> del_link(net, a, b).err,
               ret |-> None, pre |-> net]
    /\ built' = NotBuilt
    /\ UNCHANGED <<same, origin>>
    /\ UNCHANGED <<hvars, tvars>>

LinkCount ==
    /\ origin # "none"
    /\ nop' = [name |-> "link_count", args |-> <<>>, err |-> FALSE,
               ret |-> Some(link_count(net)), pre |-> net]
    /\ UNCHANGED <<ext, net, same, origin, built>>
    /\ UNCHANGED <<hvars, tvars>>

NetNext ==
    \/ \E a \in Nodes : CallerNode(a)
    \/ \E a, b \in Nodes : CallerEntry(a, b)
    \/ NewNetwork
    \/ NewNetworkFromDict
    \/ \E a \in Nodes : AddNode(a)
    \/ \E a, b \in Nodes : AddLink(a, b)
    \/ \E a, b \in Nodes : DelLink(a, b)
    \/ LinkCount


\* ======================= src/jbgraph2.py: RSTree ========================
find_neighbors(n, node) == [i \in 1..Len(n[node]) |-> n[node][i][1]]

build_ring_network(size) ==
    LET RECURSIVE Loop(_, _)
        Loop(n, i) == IF i < size - 1 THEN Loop(add_link(n, i, i + 1).net, i + 1) ELSE n
    IN add_link(Loop(<<>>, 0), 0, size - 1).net

Range(s) == {s[i] : i \in 1..Len(s)}

\* tree add_link that records a red link in one direction only
tree_add_link_nomirror(t, node1, node2, color) ==
    LET t1 == IF node1 \notin DOMAIN t THEN (node1 :> <<>>) @@ t ELSE t
        t2 == IF node2 \notin DOMAIN t1 THEN (node2 :> <<>>) @@ t1 ELSE t1
    IN [t2 EXCEPT ![node1] = (node2 :> color) @@ @]

\* The tree is a dict of dicts whose order is never read: functions on keys.
tree_add_link(t, node1, node2, color) ==
    LET t1 == IF node1 \notin DOMAIN t THEN (node1 :> <<>>) @@ t ELSE t
        t2 == IF node2 \notin DOMAIN t1 THEN (node2 :> <<>>) @@ t1 ELSE t1
        t3 == [t2 EXCEPT ![node1] = (node2 :> color) @@ @]
    IN IF color = "red" THEN [t3 EXCEPT ![node2] = (node1 :> "red") @@ @] ELSE t3

\* the for loop with an elif that tests tree[current] alone
RECURSIVE Visit_onesided(_, _, _)
Visit_onesided(st, current, neighbors) ==
    IF neighbors = <<>> THEN st
    ELSE LET neighbor == Head(neighbors) IN
         IF neighbor \notin Range(st.marked)
         THEN Visit_onesided(
                  [tree      |-> tree_add_link(st.tree, current, neighbor, "green"),
                   marked    |-> Append(st.marked, neighbor),
                   open_list |-> Append(st.open_list, neighbor)],
                  current, Tail(neighbors))
         ELSE IF neighbor \notin DOMAIN st.tree[current]
              THEN Visit_onesided(
                       [st EXCEPT !.tree = tree_add_link(@, current, neighbor, "red")],
                       current, Tail(neighbors))
              ELSE Visit_onesided(st, current, Tail(neighbors))

\* the for loop without open_list.append
RECURSIVE Visit_unqueued(_, _, _)
Visit_unqueued(st, current, neighbors) ==
    IF neighbors = <<>> THEN st
    ELSE LET neighbor == Head(neighbors) IN
         IF neighbor \notin Range(st.marked)
         THEN Visit_unqueued(
                  [tree      |-> tree_add_link(st.tree, current, neighbor, "green"),
                   marked    |-> Append(st.marked, neighbor),
                   open_list |-> st.open_list],
                  current, Tail(neighbors))
         ELSE IF neighbor \notin DOMAIN st.tree[current]
                 /\ current \notin DOMAIN st.tree[neighbor]
              THEN Visit_unqueued(
                       [st EXCEPT !.tree = tree_add_link(@, current, neighbor, "red")],
                       current, Tail(neighbors))
              ELSE Visit_unqueued(st, current, Tail(neighbors))

\* The for loop over the neighbors of current; st holds tree, marked, open_list.
\* A marked node is always a key of the tree, so tree[neighbor] cannot fail.
RECURSIVE Visit(_, _, _)
Visit(st, current, neighbors) ==
    IF neighbors = <<>> THEN st
    ELSE LET neighbor == Head(neighbors) IN
         IF neighbor \notin Range(st.marked)
         THEN Visit([tree      |-> tree_add_link(st.tree, current, neighbor, "green"),
                     marked    |-> Append(st.marked, neighbor),
                     open_list |-> Append(st.open_list, neighbor)],
                    current, Tail(neighbors))
         ELSE IF neighbor \notin DOMAIN st.tree[current]
                 /\ current \notin DOMAIN st.tree[neighbor]
              THEN Visit([st EXCEPT !.tree = tree_add_link(@, current, neighbor, "red")],
                         current, Tail(neighbors))
              ELSE Visit(st, current, Tail(neighbors))

\* ---- inputs of RSTree: symmetric graphs given as adjacency dicts ----
TreeNodes == 0..(TreeSize - 1)

Pairs == {{a, b} : a, b \in TreeNodes}

EdgeSets == {E \in SUBSET Pairs : Cardinality(E) <= MaxEdges}

RECURSIVE Perms(_)
Perms(S) == IF S = {} THEN {<<>>}
            ELSE UNION {{<<x>> \o p : p \in Perms(S \ {x})} : x \in S}

InnerDicts(E, n) ==
    {[i \in 1..Len(p) |-> <<p[i], 1>>] : p \in Perms({m \in TreeNodes : {n, m} \in E})}

RECURSIVE AdjacencyDicts(_, _)
AdjacencyDicts(E, S) ==
    IF S = {} THEN {<<>>}
    ELSE LET n == CHOOSE n \in S : TRUE
         IN {(n :> d) @@ f : d \in InnerDicts(E, n), f \in AdjacencyDicts(E, S \ {n})}

\* ---- adjacency dicts that need not be symmetric: a neighbor may lack the
\* reverse entry or may not be a key at all ----
Arcs == TreeNodes \X TreeNodes

RECURSIVE ArcSets(_)
ArcSets(k) ==
    IF k = 0 THEN {{}}
    ELSE LET P == ArcSets(k - 1) IN P \cup {A \cup {a} : A \in P, a \in Arcs}

RECURSIVE ArcDicts(_, _)
ArcDicts(A, K) ==
    IF K = {} THEN {<<>>}
    ELSE LET n == CHOOSE n \in K : TRUE
         IN {(n :> [i \in 1..Len(p) |-> <<p[i], 1>>]) @@ f :
                p \in Perms({m \in TreeNodes : <<n, m>> \in A}),
                f \in ArcDicts(A, K \ {n})}

\* State on first reaching the while loop of RSTree(network, root), for a
\* network made by Network(fromDict=d) or by build_ring_network(size).
TreeInit ==
    /\ \/ /\ \E E \in EdgeSets : net \in AdjacencyDicts(E, TreeNodes)
          /\ ext = net /\ same = TRUE /\ origin = "dict" /\ nop = NoCall
          /\ root \in TreeNodes \cup {TreeSize}
       \/ /\ \E A \in ArcSets(MaxArcs) :
                \E K \in SUBSET TreeNodes :
                    /\ \A a \in A : a[1] \in K
                    /\ net \in ArcDicts(A, K)
          /\ ext = net /\ same = TRUE /\ origin = "dict" /\ nop = NoCall
          /\ root \in TreeNodes
       \/ /\ \E size \in 3..MaxRing :
                /\ net = build_ring_network(size)
                /\ nop = [name |-> "build_ring_network", args |-> <<size>>,
                          err |-> FALSE, ret |-> None, pre |-> <<>>]
          /\ ext = <<>> /\ same = FALSE /\ origin = "ring"
          /\ root = 0
    /\ built = [links |-> {}, only |-> TRUE]
    /\ tree = (root :> <<>>)
    /\ marked = <<root>>
    /\ open_list = <<root>>
    /\ tpc = "loop"
    /\ dequeued = <<>>

\* a loop that takes a node missing from the network as one without neighbors
TreeLoop_lenient ==
    /\ tpc = "loop"
    /\ open_list # <<>>
    /\ LET current == Head(open_list)
           st == Visit([tree |-> tree, marked |-> marked,
                        open_list |-> Tail(open_list)],
                       current,
                       IF current \in DOMAIN net
                       THEN find_neighbors(net, current) ELSE <<>>)
       IN /\ tree' = st.tree
          /\ marked' = st.marked
          /\ open_list' = st.open_list
          /\ tpc' = "loop"
    /\ dequeued' = Append(dequeued, Head(open_list))
    /\ UNCHANGED root
    /\ UNCHANGED <<hvars, nvars>>

\* One iteration of the while loop; find_neighbors raises KeyError when
\* current is not a node of the network.
TreeLoop ==
    /\ tpc = "loop"
    /\ open_list # <<>>
    /\ LET current == Head(open_list) IN
       IF current \notin DOMAIN net
       THEN /\ tpc' = "error"
            /\ open_list' = Tail(open_list)
            /\ UNCHANGED <<tree, marked>>
       ELSE LET st == Visit([tree |-> tree, marked |-> marked,
                             open_list |-> Tail(open_list)],
                            current, find_neighbors(net, current))
            IN /\ tree' = st.tree
               /\ marked' = st.marked
               /\ open_list' = st.open_list
               /\ tpc' = "loop"
    /\ dequeued' = Append(dequeued, Head(open_list))
    /\ UNCHANGED root
    /\ UNCHANGED <<hvars, nvars>>

\* a traversal that stops while nodes are still queued
TreeDone_early ==
    /\ tpc = "loop"
    /\ Len(marked) > 1
    /\ tpc' = "done"
    /\ UNCHANGED <<root, tree, marked, open_list, dequeued>>
    /\ UNCHANGED <<hvars, nvars>>

\* The loop ends on the empty open_list, and self._tree = tree.
TreeDone ==
    /\ tpc = "loop"
    /\ open_list = <<>>
    /\ tpc' = "done"
    /\ UNCHANGED <<root, tree, marked, open_list, dequeued>>
    /\ UNCHANGED <<hvars, nvars>>

TreeNext == TreeLoop \/ TreeDone

\* ============================ specifications ============================
\* no RSTree under construction
TreeIdle ==
    /\ root = 0 /\ tree = <<>> /\ marked = <<>> /\ open_list = <<>> /\ tpc = "idle"
    /\ dequeued = <<>>

HeapSpecInit == HeapInit /\ NetInit /\ TreeIdle

NetSpecInit == NetInit /\ HeapInit /\ TreeIdle

TreeSpecInit == TreeInit /\ HeapInit

TupleSpecInit == TupleInit /\ NetInit /\ TreeIdle

SpecHeap == HeapSpecInit /\ [][HeapNext]_vars

SpecTuples == TupleSpecInit /\ [][TupleNext]_vars

SpecNet == NetSpecInit /\ [][NetNext]_vars

SpecTree == TreeSpecInit /\ [][TreeNext]_vars

\* The constructor runs to its end: each loop iteration and the exit are taken.
SpecTreeFair == TreeSpecInit /\ [][TreeNext]_vars /\ WF_vars(TreeNext)

\* ================================ claims ================================
Symmetric(n) ==
    \A a \in DOMAIN n : \A b \in DKeys(n[a]) :
        b \in DOMAIN n /\ DHas(n[b], a) /\ DGet(n[b], a) = DGet(n[a], b)

NoSelfLinks(n) == \A a \in DOMAIN n : ~DHas(n[a], a)

\* the nodes reachable from the nodes of S along adjacency entries
RECURSIVE Closure(_, _)
Closure(n, S) ==
    LET T == S \cup UNION {DKeys(n[a]) : a \in S \cap DOMAIN n}
    IN IF T = S THEN S ELSE Closure(n, T)

Tagged(t, a, b, color) == a \in DOMAIN t /\ b \in DOMAIN t[a] /\ t[a][b] = color

Count(P) == IF P THEN 1 ELSE 0

GreenParents(t, n) == {p \in DOMAIN t : Tagged(t, p, n, "green")}

RECURSIVE ClimbsToRoot(_, _, _, _)
ClimbsToRoot(t, r, n, k) ==
    \/ n = r
    \/ /\ k > 0
       /\ GreenParents(t, n) # {}
       /\ ClimbsToRoot(t, r, CHOOSE p \in GreenParents(t, n) : TRUE, k - 1)

TreeBuilt == tpc = "done" /\ root \in DOMAIN net /\ Symmetric(net)

\* C1: after any sequence of insert and pop calls from the empty heap, no
\* element is less than the element at its parent position (i-1)//2.
HeapInvariant ==
    \A i \in 1..(Len(heap) - 1) : ~is_less_than(At(heap, i), At(heap, parent(i)))

\* C2: every pop on a non-empty heap returns a minimum of the stored elements,
\* so the value it returns is not greater than any element left in the heap.
PopReturnsMinimum ==
    (hop.name = "pop" /\ hop.ret # None) =>
        \A i \in 1..Len(heap) : ~is_less_than(heap[i], hop.ret[1])
\* C3: after add_link(a, b) both a and b are nodes and each is in the other's
\* adjacency with weight 1.
AddLinkLinksBoth ==
    nop.name = "add_link" =>
        LET a == nop.args[1]
            b == nop.args[2]
        IN /\ a \in DOMAIN net /\ b \in DOMAIN net
           /\ DHas(net[a], b) /\ DGet(net[a], b) = 1
           /\ DHas(net[b], a) /\ DGet(net[b], a) = 1

\* C4: on a Network built from empty by add_link calls on k distinct pairs of
\* distinct nodes, link_count returns k.
LinkCountIsNumberOfLinks ==
    (nop.name = "link_count" /\ built.only) =>
        nop.ret = Some(Cardinality(built.links))

\* C5: on a Network that started empty, after any calls of add_node, add_link
\* and del_link, b is in a's adjacency with weight w iff a is in b's with w.
GraphSymmetry == origin = "empty" => Symmetric(net)

GraphSymmetryWitness ==
    /\ origin = "empty"
    /\ nop.name = "add_link"
    /\ nop.args[1] # nop.args[2]
    /\ nop.args[1] \in DOMAIN net
    /\ Cardinality(DOMAIN net) >= 2

\* C6: on a connected symmetric graph without self-links every graph edge is
\* recorded green in exactly one direction and red in none, or red in both
\* directions and green in none.
EdgeCoverage ==
    (TreeBuilt /\ NoSelfLinks(net) /\ Closure(net, {root}) = DOMAIN net) =>
        \A a \in DOMAIN net : \A b \in DKeys(net[a]) :
            LET g == Count(Tagged(tree, a, b, "green")) + Count(Tagged(tree, b, a, "green"))
                r == Count(Tagged(tree, a, b, "red")) + Count(Tagged(tree, b, a, "red"))
            IN (g = 1 /\ r = 0) \/ (g = 0 /\ r = 2)

EdgeCoverageWitness ==
    /\ TreeBuilt /\ NoSelfLinks(net) /\ Closure(net, {root}) = DOMAIN net
    /\ \E a, b \in DOMAIN net : Tagged(tree, a, b, "red") /\ Tagged(tree, b, a, "red")
    /\ \E a, b \in DOMAIN net : Tagged(tree, a, b, "green")

\* C7: the green entries form a tree over the nodes reachable from the root:
\* the root has no incoming green entry, every other reachable node has exactly
\* one, and the parent links of every reachable node lead to the root.
TreeShape ==
    TreeBuilt =>
        LET R == Closure(net, {root}) IN
        /\ GreenParents(tree, root) = {}
        /\ \A n \in R \ {root} : Cardinality(GreenParents(tree, n)) = 1
        /\ \A n \in R : ClimbsToRoot(tree, root, n, Cardinality(R))

TreeShapeWitness ==
    /\ TreeBuilt
    /\ Cardinality(Closure(net, {root})) >= 3
    /\ \E a, b \in DOMAIN net : Tagged(tree, a, b, "red")
    /\ \E a \in DOMAIN net \ {root} : \E b \in DOMAIN net : Tagged(tree, a, b, "green")

\* C8: the keys of the tree are exactly the nodes reachable from the root.
TreeKeysAreReachable == TreeBuilt => DOMAIN tree = Closure(net, {root})

TreeKeysWitness ==
    /\ TreeBuilt
    /\ Cardinality(DOMAIN tree) >= 2
    /\ DOMAIN tree # DOMAIN net

\* C9: del_link(a, b) fails iff a or b is not a node or the link is not there;
\* when the link is there it succeeds and removes both entries.
DelLinkFailsIffMissing ==
    nop.name = "del_link" =>
        LET a == nop.args[1]
            b == nop.args[2]
            present == /\ a \in DOMAIN nop.pre /\ b \in DOMAIN nop.pre
                       /\ DHas(nop.pre[a], b) /\ DHas(nop.pre[b], a)
        IN /\ nop.err <=> ~present
           /\ present => ~DHas(net[a], b) /\ ~DHas(net[b], a)

\* C10: for the ring of n nodes and root 0 the tree holds n-1 green entries
\* that form one path over all n nodes, and exactly one pair of red entries.
RingScenario ==
    (origin = "ring" /\ tpc = "done") =>
        LET n == nop.args[1]
            K == DOMAIN tree
            green == {e \in K \X K : Tagged(tree, e[1], e[2], "green")}
            red == {{a, b} : a, b \in K} \cap
                   {{e[1], e[2]} : e \in {x \in K \X K :
                        Tagged(tree, x[1], x[2], "red") /\ Tagged(tree, x[2], x[1], "red")}}
        IN /\ Cardinality(green) = n - 1
           /\ K = 0..(n - 1)
           /\ \A v \in K : Cardinality({e \in green : v \in {e[1], e[2]}}) <= 2
           /\ Cardinality(red) = 1
\* the heap invariant of a list under the object's ordering
HeapOrdered(L) ==
    \A i \in 1..(Len(L) - 1) : ~self_is_less_than(At(L, i), At(L, parent(i)))

Occurrences(L, v) == Cardinality({i \in 1..Len(L) : L[i] = v})

\* C12: pop() on an empty heap returns None and leaves the heap empty.
PopOnEmptyReturnsNone ==
    (hop.name = "pop" /\ hop.pre = <<>>) => (hop.ret = None /\ heap = <<>>)

PopOnEmptyWitness ==
    /\ hop.name = "pop" /\ hop.pre = <<>> /\ ~hop.only
    /\ hop.ret = None /\ heap = <<>>

\* C13: after three tuples with pairwise distinct keys were inserted into an
\* empty HeapOfTuples, the first pop returns the tuple with the smallest key
\* and the second pop the tuple with the second-smallest key.
KeyedHeapPopsSmallest ==
    LET key(t) == At(t, i_val[1])
        least(S) == CHOOSE t \in S : \A u \in S : key(t) <= key(u)
        ins == Range(tins)
    IN (/\ i_val # None
        /\ Len(tins) = 3
        /\ \A i, j \in 1..3 : i # j => key(tins[i]) # key(tins[j]))
       => /\ Len(tout) >= 1 => tout[1] = Some(least(ins))
          /\ Len(tout) >= 2 => tout[2] = Some(least(ins \ {least(ins)}))

KeyedHeapWitness ==
    /\ i_val = Some(0)
    /\ Len(tins) = 3
    /\ tins[1][1] > tins[3][1] /\ tins[3][1] > tins[2][1]
    /\ tins[1][2] < tins[2][2]
    /\ Len(tout) = 2

\* C14: link_count is exactly half the sum of all adjacency weights; when the
\* sum is odd the call fails instead of returning the rounded-down half.
LinkCountIsExactHalf ==
    nop.name = "link_count" =>
        \/ nop.err
        \/ 2 * nop.ret[1] = SumOver(nop.pre, DOMAIN nop.pre)

\* C15: after Network(fromDict=d), calls that change the Network leave d as it
\* was, and changes the caller makes to d leave the Network as it was.
NetworkOwnsAdjacency ==
    [][origin = "dict" =>
          /\ nop'.name \in {"add_node", "add_link", "del_link"} => ext' = ext
          /\ nop'.name = "caller" => net' = net]_vars

\* C16: insert on a list that satisfies the heap invariant gives a list that
\* satisfies it, so a heap built by inserts alone satisfies it.
InsertPreservesInvariant ==
    /\ (hop.name = "insert" /\ HeapOrdered(hop.pre)) => HeapOrdered(heap)
    /\ hop.only => HeapOrdered(heap)

InsertPreservesWitness ==
    /\ hop.name = "insert" /\ ~hop.only
    /\ HeapOrdered(hop.pre)
    /\ Len(heap) = 4
    /\ heap[1] = hop.arg[1] /\ heap[1] < hop.pre[1]

\* C18: the downward repair of pop() stops at a position whose element is not
\* greater than any child it has there, also when its only child is the left
\* child at the last index.
DownRepairStopsInOrder ==
    (hop.name = "pop" /\ Len(hop.pre) >= 2) =>
        LET moved == [ListPop(hop.pre) EXCEPT ![1] = hop.pre[Len(hop.pre)]]
            r == down_heapify_loop(moved, 0)
        IN /\ heap = r.L
           /\ left_child(r.i) < Len(r.L) =>
                  ~self_is_less_than(At(r.L, left_child(r.i)), At(r.L, r.i))
           /\ right_child(r.i) < Len(r.L) =>
                  ~self_is_less_than(At(r.L, right_child(r.i)), At(r.L, r.i))

\* the last element moved to the root had one child, the last index, and sank
DownRepairWitness ==
    /\ hop.name = "pop"
    /\ Len(hop.pre) = 3
    /\ hop.pre[2] < hop.pre[3]
    /\ heap = <<hop.pre[2], hop.pre[3]>>

\* C19: insert adds exactly its element and pop on a non-empty heap removes
\* exactly the element it returns; the repairs only reorder the list.
ContentConserved ==
    /\ hop.name = "insert" =>
          /\ Len(heap) = Len(hop.pre) + 1
          /\ \A v \in Values :
                Occurrences(heap, v) =
                    Occurrences(hop.pre, v) + Count(v = hop.arg[1])
    /\ (hop.name = "pop" /\ hop.pre # <<>>) =>
          /\ hop.ret # None
          /\ Len(heap) = Len(hop.pre) - 1
          /\ \A v \in Values :
                Occurrences(heap, v) + Count(v = hop.ret[1]) =
                    Occurrences(hop.pre, v)
    /\ (hop.name = "pop" /\ hop.pre = <<>>) => heap = <<>>

ContentConservedWitness ==
    /\ hop.name = "pop"
    /\ Len(hop.pre) = 4
    /\ heap[1] # hop.pre[4]
    /\ \E i, j \in 1..3 : heap[i] = heap[j] /\ i # j

\* C20: a del_link call that fails leaves the Network as it was before the call.
DelLinkFailureChangesNothing ==
    (nop.name = "del_link" /\ nop.err) => net = nop.pre
NoDangling(n) == \A a \in DOMAIN n : DKeys(n[a]) \subseteq DOMAIN n

NoDuplicates(q) == \A i, j \in 1..Len(q) : q[i] = q[j] => i = j

\* every reachable node was put on the queue once and taken off once
TraversalComplete ==
    /\ tpc = "done"
    /\ open_list = <<>>
    /\ NoDuplicates(marked) /\ Range(marked) = Closure(net, {root})
    /\ NoDuplicates(dequeued) /\ Range(dequeued) = Closure(net, {root})

\* C11: with a root that is not a node of the network the construction stops
\* with KeyError on its first find_neighbors and no tree is ever stored.
MissingRootFails ==
    root \notin DOMAIN net =>
        /\ tpc \in {"loop", "error"}
        /\ tpc = "loop" => (open_list = <<root>> /\ dequeued = <<>>)
        /\ tpc = "error" => (dequeued = <<root>> /\ tree = (root :> <<>>))

MissingRootWitness == root \notin DOMAIN net /\ tpc = "error" /\ DOMAIN net # {}

\* C17 as claimed: on every graph with the root present the traversal ends
\* with an empty queue and each reachable node queued and dequeued once.
TraversalOnEveryGraph ==
    root \in DOMAIN net =>
        /\ tpc # "error"
        /\ tpc = "done" => TraversalComplete

\* C17 as amended: on every graph with the root present in which every
\* neighbor named in an adjacency is itself a node, the traversal ends with an
\* empty queue and each reachable node queued once and dequeued once.
TraversalTerminates ==
    (root \in DOMAIN net /\ NoDangling(net)) => <>TraversalComplete

TraversalWitness ==
    /\ TraversalComplete
    /\ NoDangling(net) /\ ~Symmetric(net)
    /\ Len(dequeued) >= 3
====
